---- MODULE Spec2Model ----
(***************************************************************************)
(* A model of logdecorator: the decorators log_on_start, log_on_end,       *)
(* log_on_error and log_exception (decorator.py) and their async_*         *)
(* variants (asyncio.py), together with the parts of the Python runtime    *)
(* they rest on: signature binding, str.format, exception matching and the *)
(* logging facility.                                                       *)
(***************************************************************************)
EXTENDS Integers, Sequences, FiniteSets, TLC

(***************************************************************************)
(* Python values.  Every value is a record whose field t names its type;   *)
(* the payload field differs per type so that values of different types    *)
(* are comparable.                                                         *)
(***************************************************************************)
IntV(n) == [t |-> "int", n |-> n]
StrV(s) == [t |-> "str", s |-> s]
NoneV == [t |-> "none"]
\* inspect.Parameter.empty, the class inspect._empty
EmptyV == [t |-> "empty"]
TupleV(items) == [t |-> "tuple", items |-> items]
\* a dict is an insertion-ordered sequence of [k, v] pairs
DictV(pairs) == [t |-> "dict", pairs |-> pairs]
FnV(name) == [t |-> "function", name |-> name]
\* an exception instance: its class, its single argument and the place that
\* created it (the place stands for the identity of the object)
ExcV(type, arg, origin) == [t |-> "exc", type |-> type, arg |-> arg, origin |-> origin]

(***************************************************************************)
(* The exception classes used and their base classes.                      *)
(***************************************************************************)
ExcTypes ==
  {"BaseException", "KeyboardInterrupt", "Exception", "TypeError", "ValueError",
   "LookupError", "KeyError", "TestException"}

Base(c) ==
  CASE c = "KeyboardInterrupt" -> "BaseException"
    [] c = "Exception" -> "BaseException"
    [] c = "TypeError" -> "Exception"
    [] c = "ValueError" -> "Exception"
    [] c = "LookupError" -> "Exception"
    [] c = "KeyError" -> "LookupError"
    [] c = "TestException" -> "Exception"
    [] OTHER -> "object"

RECURSIVE IsSubclass(_, _)
IsSubclass(c, d) ==
  IF c = d THEN TRUE
  ELSE IF c \notin ExcTypes THEN FALSE
  ELSE IsSubclass(Base(c), d)

\* `except classes:` with classes a tuple, modelled as a set, of classes
ExceptMatches(exc, classes) == \E d \in classes : IsSubclass(exc.type, d)

(***************************************************************************)
(* str() and repr() of a value.                                            *)
(***************************************************************************)
Digit(d) ==
  CASE d = 0 -> "0" [] d = 1 -> "1" [] d = 2 -> "2" [] d = 3 -> "3" [] d = 4 -> "4"
    [] d = 5 -> "5" [] d = 6 -> "6" [] d = 7 -> "7" [] d = 8 -> "8" [] d = 9 -> "9"

RECURSIVE NatStr(_)
NatStr(n) == IF n < 10 THEN Digit(n) ELSE NatStr(n \div 10) \o Digit(n % 10)

IntStr(n) == IF n < 0 THEN "-" \o NatStr(0 - n) ELSE NatStr(n)

RECURSIVE Repr(_)
RECURSIVE ReprItems(_)
RECURSIVE ReprPairs(_)
Repr(v) ==
  CASE v.t = "int" -> IntStr(v.n)
    [] v.t = "str" -> "'" \o v.s \o "'"
    [] v.t = "none" -> "None"
    [] v.t = "empty" -> "<class 'inspect._empty'>"
    [] v.t = "tuple" ->
         IF Len(v.items) = 1 THEN "(" \o Repr(v.items[1]) \o ",)"
         ELSE "(" \o ReprItems(v.items) \o ")"
    [] v.t = "dict" -> "{" \o ReprPairs(v.pairs) \o "}"
    [] v.t = "function" -> "<function " \o v.name \o ">"
    [] v.t = "exc" -> v.type \o "(" \o Repr(v.arg) \o ")"

ReprItems(s) ==
  IF s = <<>> THEN ""
  ELSE IF Len(s) = 1 THEN Repr(s[1])
  ELSE Repr(s[1]) \o ", " \o ReprItems(Tail(s))

ReprPairs(s) ==
  IF s = <<>> THEN ""
  ELSE IF Len(s) = 1 THEN "'" \o s[1].k \o "': " \o Repr(s[1].v)
  ELSE "'" \o s[1].k \o "': " \o Repr(s[1].v) \o ", " \o ReprPairs(Tail(s))

RECURSIVE Str(_)
Str(v) ==
  CASE v.t = "str" -> v.s
    [] v.t = "exc" -> IF v.type = "KeyError" THEN Repr(v.arg) ELSE Str(v.arg)
    [] OTHER -> Repr(v)

(***************************************************************************)
(* Results of an evaluation that may raise.                                *)
(***************************************************************************)
Returned(v) == [ok |-> TRUE, val |-> v]
Raised(e) == [ok |-> FALSE, exc |-> e]

(***************************************************************************)
(* Signatures and inspect.Signature.bind_partial.                          *)
(***************************************************************************)
Param(name, kind, default) == [name |-> name, kind |-> kind, default |-> default]

\* def test_func(arg1, arg2, kwarg1=None, kwarg2=None)
SigTestFunc ==
  << Param("arg1", "POSITIONAL_OR_KEYWORD", EmptyV),
     Param("arg2", "POSITIONAL_OR_KEYWORD", EmptyV),
     Param("kwarg1", "POSITIONAL_OR_KEYWORD", NoneV),
     Param("kwarg2", "POSITIONAL_OR_KEYWORD", NoneV) >>

\* a Mock instance, whose signature is *args, **kwargs
SigMock ==
  << Param("args", "VAR_POSITIONAL", EmptyV),
     Param("kwargs", "VAR_KEYWORD", EmptyV) >>

Signature(fn) == IF fn.name = "test_func" THEN SigTestFunc ELSE SigMock

ParamNames(sig) == {sig[i].name : i \in 1..Len(sig)}
OfKind(sig, kind) == {i \in 1..Len(sig) : sig[i].kind = kind}
KwNames(kwargs) == {kwargs[i].k : i \in 1..Len(kwargs)}
KwGet(kwargs, name) == kwargs[CHOOSE i \in 1..Len(kwargs) : kwargs[i].k = name].v

\* Positional-or-keyword parameters come first in a signature, so the first
\* npos entries of sig are the ones positional arguments bind to.  A
\* variadic parameter is bound only when something is left over for it.
BindPartial(sig, args, kwargs) ==
  LET pok == OfKind(sig, "POSITIONAL_OR_KEYWORD")
      varpos == OfKind(sig, "VAR_POSITIONAL")
      varkw == OfKind(sig, "VAR_KEYWORD")
      npos == Cardinality(pok)
      nbound == IF Len(args) < npos THEN Len(args) ELSE npos
      posBound == {sig[i].name : i \in 1..nbound}
      pokNames == {sig[i].name : i \in pok}
      extraPos == SubSeq(args, npos + 1, Len(args))
      leftover == SelectSeq(kwargs, LAMBDA p : p.k \notin pokNames)
      varposName == {sig[i].name : i \in {j \in varpos : extraPos # <<>>}}
      varkwName == {sig[i].name : i \in {j \in varkw : leftover # <<>>}}
      arguments ==
        [n \in posBound \cup (KwNames(kwargs) \cap pokNames) \cup varposName \cup varkwName |->
           IF n \in posBound THEN args[CHOOSE i \in 1..nbound : sig[i].name = n]
           ELSE IF n \in varposName THEN TupleV(extraPos)
           ELSE IF n \in varkwName THEN DictV(leftover)
           ELSE KwGet(kwargs, n)]
  IN  IF Len(args) > npos /\ varpos = {}
        THEN Raised(ExcV("TypeError", StrV("too many positional arguments"), "bind_partial"))
      ELSE IF posBound \cap KwNames(kwargs) # {}
        THEN Raised(ExcV("TypeError", StrV("multiple values for argument"), "bind_partial"))
      ELSE IF leftover # <<>> /\ varkw = {}
        THEN Raised(ExcV("TypeError", StrV("got an unexpected keyword argument"), "bind_partial"))
      ELSE Returned(arguments)

(***************************************************************************)
(* LoggingDecorator.build_extensive_kwargs: every declared parameter, with *)
(* the bound argument or else the parameter object's default attribute     *)
(* (which is inspect.Parameter.empty for a parameter without a default).   *)
(***************************************************************************)
\* Variant: only the arguments the call bound, no defaults.
build_extensive_kwargs_no_defaults(fn, args, kwargs) ==
  BindPartial(Signature(fn), args, kwargs)

build_extensive_kwargs(fn, args, kwargs) ==
  LET sig == Signature(fn)
      bound_arguments == BindPartial(sig, args, kwargs)
  IN  IF ~bound_arguments.ok THEN bound_arguments
      ELSE Returned(
             [param_name \in ParamNames(sig) |->
                IF param_name \in DOMAIN bound_arguments.val
                  THEN bound_arguments.val[param_name]
                  ELSE sig[CHOOSE i \in 1..Len(sig) : sig[i].name = param_name].default])

(***************************************************************************)
(* str.format over a mapping.  A template is a sequence of parts: literal  *)
(* text [lit] or a replacement field [name, conv, spec], {name!conv:spec}. *)
(***************************************************************************)
Lit(text) == [lit |-> text]
Field(name, conv, spec) == [name |-> name, conv |-> conv, spec |-> spec]
IsField(part) == "name" \in DOMAIN part

\* format(value, spec) after the conversion: an empty spec is str(); "d" is
\* decimal rendering, defined for int only (ValueError for a str, TypeError
\* for objects whose __format__ takes no format string).
FormatField(value, conv, spec) ==
  LET v == IF conv = "r" THEN StrV(Repr(value)) ELSE value
  IN  IF spec = "" THEN Returned(Str(v))
      ELSE IF v.t = "int" THEN Returned(IntStr(v.n))
      ELSE IF v.t = "str"
        THEN Raised(ExcV("ValueError", StrV("Unknown format code 'd'"), "format"))
      ELSE Raised(ExcV("TypeError", StrV("unsupported format string"), "format"))

RECURSIVE Format(_, _)
Format(parts, mapping) ==
  IF parts = <<>> THEN Returned("")
  ELSE LET part == Head(parts)
           first == IF ~IsField(part) THEN Returned(part.lit)
                    ELSE IF part.name \notin DOMAIN mapping
                      THEN Raised(ExcV("KeyError", StrV(part.name), "format"))
                    ELSE FormatField(mapping[part.name], part.conv, part.spec)
           rest == Format(Tail(parts), mapping)
       IN  IF ~first.ok THEN first
           ELSE IF ~rest.ok THEN rest
           ELSE Returned(first.val \o rest.val)

\* dict.update: the entries of b override those of a
Update(a, b) ==
  [n \in DOMAIN a \cup DOMAIN b |-> IF n \in DOMAIN b THEN b[n] ELSE a[n]]

NoExtra == [n \in {} |-> NoneV]
Only(name, value) == [n \in {name} |-> value]

(***************************************************************************)
(* LoggingDecorator.build_msg                                              *)
(***************************************************************************)
build_msg(self, fn, fn_args, fn_kwargs, extra) ==
  LET format_kwargs == build_extensive_kwargs(fn, fn_args, fn_kwargs)
      extra2 == Update(extra, Only(self.callable_format_variable, fn))
  IN  IF ~format_kwargs.ok THEN format_kwargs
      ELSE Format(self.message, Update(format_kwargs.val, extra2))

(***************************************************************************)
(* The message templates of the test-suite.                                *)
(***************************************************************************)
\* "test message {arg1:d}, {arg2:d}"
MsgArgs ==
  << Lit("test message "), Field("arg1", "", "d"), Lit(", "), Field("arg2", "", "d") >>
\* "test message {arg1:d}, {arg2:d} => {result:d}"
MsgResult ==
  << Lit("test message "), Field("arg1", "", "d"), Lit(", "), Field("arg2", "", "d"),
     Lit(" => "), Field("result", "", "d") >>
\* "test message {e!r}"
MsgExc == << Lit("test message "), Field("e", "r", "") >>
\* "test message"
MsgPlain == << Lit("test message") >>
\* "test message {kwarg1!r}"
MsgKwarg == << Lit("test message "), Field("kwarg1", "r", "") >>
\* "{arg2}": names a parameter that has no default
MsgArg2 == << Field("arg2", "", "") >>

Messages == {MsgArgs, MsgResult, MsgExc, MsgPlain, MsgKwarg, MsgArg2}

(***************************************************************************)
(* The wrapped callables of the test-suite.                                *)
(***************************************************************************)
test_func == FnV("test_func")
\* Mock(side_effect=TestException("test exception"))
mocked_func == FnV("mocked_func")
\* a Mock whose side effect is a KeyboardInterrupt, which is no Exception
interrupted_func == FnV("interrupted_func")

\* fn.__module__, the name get_logger asks the logging module for
Module(fn) == IF fn = test_func THEN "tests_generic" ELSE "unittest.mock"

\* arg1 + arg2
Add(a, b) ==
  IF a.t = "int" /\ b.t = "int" THEN Returned(IntV(a.n + b.n))
  ELSE IF a.t = "str" /\ b.t = "str" THEN Returned(StrV(a.s \o b.s))
  ELSE Raised(ExcV("TypeError", StrV("unsupported operand type(s) for +"), "fn"))

\* fn(*args, **kwargs): Python binds the arguments (every parameter without
\* a default must be given), then runs the body.
CallFn(fn, args, kwargs) ==
  LET sig == Signature(fn)
      bound == BindPartial(sig, args, kwargs)
      required == {sig[i].name : i \in {j \in OfKind(sig, "POSITIONAL_OR_KEYWORD") :
                                           sig[j].default = EmptyV}}
  IN  IF fn = mocked_func
        THEN Raised(ExcV("TestException", StrV("test exception"), "fn"))
      ELSE IF fn = interrupted_func
        THEN Raised(ExcV("KeyboardInterrupt", StrV(""), "fn"))
      ELSE IF ~bound.ok \/ ~(required \subseteq DOMAIN bound.val)
        THEN Raised(ExcV("TypeError", StrV("missing or unexpected argument"), "call"))
      ELSE Add(bound.val["arg1"], bound.val["arg2"])

(***************************************************************************)
(* The decorator classes.                                                  *)
(***************************************************************************)
SyncClasses == {"log_on_start", "log_on_end", "log_on_error", "log_exception"}
AsyncClasses ==
  {"async_log_on_start", "async_log_on_end", "async_log_on_error", "async_log_exception"}
Classes == SyncClasses \cup AsyncClasses

IsAsync(cls) == cls \in AsyncClasses
Policy(cls) ==
  CASE cls \in {"log_on_start", "async_log_on_start"} -> "start"
    [] cls \in {"log_on_end", "async_log_on_end"} -> "end"
    [] OTHER -> "error"
IsLogException(cls) == cls \in {"log_exception", "async_log_exception"}

\* the absent argument, None
None == "None"
Levels == {"INFO", "ERROR"}
Loggers == {"mocked", "tests_generic", "unittest.mock"}
Handlers == {"log_handler"}

\* values of the on_exceptions argument: None, a tuple of classes, one class
NoneArg == [t |-> "none"]
TupleArg(classes) == [t |-> "tuple", classes |-> classes]
ClassArg(c) == [t |-> "class", c |-> c]
Truthy(x) == x.t = "class" \/ (x.t = "tuple" /\ x.classes # {})
ClassesOf(x) == IF x.t = "class" THEN {x.c} ELSE IF x.t = "tuple" THEN x.classes ELSE {}

OnExceptionsArgs ==
  {NoneArg, TupleArg({}), ClassArg("TestException"), TupleArg({"TypeError", "ValueError"}),
   ClassArg("BaseException")}

\* the number of calls made through a decorator
MaxCalls == 2

Threads == {"t1", "t2"}
MainThread == "t1"

VARIABLES
  dec,        \* the decorator instance, or NoDec before a construction succeeds
  ctor,       \* the arguments and the result of the last constructor call
  warnings,   \* the warnings issued so far
  handlers,   \* logging: the handlers attached to each logger
  records,    \* logging: the records emitted so far, in order
  pc,         \* per thread: where its call of the wrapper stands
  frame,      \* per thread: the locals of the call
  trace,      \* per thread: what the call has done so far, in order
  ncalls,     \* calls of the wrapper made so far
  binder,     \* the argument binder applied to one input
  nest        \* a call through several decorators nested around one callable

vars == <<dec, ctor, warnings, handlers, records, pc, frame, trace, ncalls, binder, nest>>
mvars == <<dec, ctor, warnings, handlers, records, pc, frame, trace, ncalls, nest>>

NoDec == [cls |-> "none"]
NoCtor == [cls |-> "none"]
NoOutcome == [pending |-> TRUE]
NoFrame ==
  [fn |-> NoneV, args |-> <<>>, kwargs |-> <<>>, logger |-> None, msg |-> "",
   result |-> NoneV, exc |-> NoneV, out |-> NoOutcome,
   \* history: the number of records emitted before the call, and whether
   \* the caller has started to run the wrapper's body
   base |-> 0, driven |-> FALSE]
NoBinder == [st |-> "off"]
NoNest == [st |-> "off"]

(***************************************************************************)
(* Construction: LoggingDecorator.__init__ and the __init__ of the         *)
(* subclasses.                                                             *)
(***************************************************************************)
LoggingDecoratorInit(cls, log_level, message, logger, handler) ==
  [cls |-> cls, log_level |-> log_level, message |-> message,
   _logger |-> logger,
   _handler |-> IF handler # None /\ logger # None THEN None ELSE handler,
   callable_format_variable |-> "callable"]

MixedUse(logger, handler) == handler # None /\ logger # None

\* record a with the fields of b added
Extend(a, b) == [n \in DOMAIN a \cup DOMAIN b |-> IF n \in DOMAIN a THEN a[n] ELSE b[n]]

log_on_end_init(cls, log_level, message, logger, handler) ==
  Extend(LoggingDecoratorInit(cls, log_level, message, logger, handler),
         [result_format_variable |-> "result"])

\* Variant: an unset or empty filter catches everything.
log_on_error_init_catch_all(cls, log_level, message, logger, handler, on_exceptions, reraise) ==
  Extend(LoggingDecoratorInit(cls, log_level, message, logger, handler),
         [on_exceptions |-> IF Truthy(on_exceptions) THEN on_exceptions
                            ELSE ClassArg("BaseException"),
          reraise |-> reraise,
          exception_format_variable |-> "e"])

log_on_error_init(cls, log_level, message, logger, handler, on_exceptions, reraise) ==
  Extend(LoggingDecoratorInit(cls, log_level, message, logger, handler),
         [on_exceptions |-> IF Truthy(on_exceptions) THEN on_exceptions ELSE TupleArg({}),
          reraise |-> reraise,
          exception_format_variable |-> "e"])

log_exception_init(cls, message, logger, handler, on_exceptions, reraise) ==
  log_on_error_init(cls, "ERROR", message, logger, handler, on_exceptions, reraise)

\* Whether Python can bind the call cls(level?, message, ...) to __init__:
\* log_exception takes no level, the other classes require one.
CtorBinds(cls, level) == IF IsLogException(cls) THEN level = None ELSE level # None

Construct(cls, level, message, logger, handler, on_exceptions, reraise) ==
  /\ ctor = NoCtor
  /\ Policy(cls) # "error" => (on_exceptions = NoneArg /\ reraise)
  /\ ctor' = [cls |-> cls, level |-> level, logger |-> logger, handler |-> handler,
              on_exceptions |-> on_exceptions, reraise |-> reraise,
              raised |-> IF CtorBinds(cls, level) THEN None ELSE "TypeError"]
  /\ IF ~CtorBinds(cls, level)
       THEN UNCHANGED <<dec, warnings>>
       ELSE /\ dec' = CASE Policy(cls) = "start" ->
                             LoggingDecoratorInit(cls, level, message, logger, handler)
                        [] Policy(cls) = "end" ->
                             log_on_end_init(cls, level, message, logger, handler)
                        [] IsLogException(cls) ->
                             log_exception_init(cls, message, logger, handler,
                                                on_exceptions, reraise)
                        [] OTHER ->
                             log_on_error_init(cls, level, message, logger, handler,
                                               on_exceptions, reraise)
            /\ warnings' = IF MixedUse(logger, handler)
                             THEN Append(warnings, "mixed use of handler and logger")
                             ELSE warnings
  /\ UNCHANGED <<handlers, records, pc, frame, trace, ncalls, binder, nest>>

(***************************************************************************)
(* A call of the wrapper.  The inputs of the calls made.                   *)
(***************************************************************************)
Kw(k, v) == [k |-> k, v |-> v]

CallInputs ==
  { <<test_func, <<IntV(1), IntV(2)>>, <<>> >>,
    <<test_func, <<IntV(2), StrV("asd")>>, <<>> >>,
    <<test_func, <<IntV(1)>>, <<>> >>,
    <<test_func, <<IntV(1)>>, <<Kw("arg2", IntV(2)), Kw("kwarg1", StrV("k"))>> >>,
    <<test_func, <<IntV(1), IntV(2)>>, <<Kw("bogus", IntV(1))>> >>,
    <<mocked_func, <<IntV(1), IntV(2)>>, <<>> >>,
    <<interrupted_func, <<>>, <<>> >> }

Finish(t, out) ==
  /\ pc' = [pc EXCEPT ![t] = "done"]
  /\ frame' = [frame EXCEPT ![t].out = out]

\* Variant: the async wrapper runs execute when called.
CallEager(t, fn, args, kwargs) ==
  /\ dec # NoDec
  /\ pc[t] \in {"idle", "done", "discarded"}
  /\ ncalls < MaxCalls
  /\ ncalls' = ncalls + 1
  /\ frame' = [frame EXCEPT ![t] = [NoFrame EXCEPT !.fn = fn, !.args = args,
                                                   !.kwargs = kwargs,
                                                   !.base = Len(records),
                                                   !.driven = ~IsAsync(dec.cls)]]
  /\ trace' = [trace EXCEPT ![t] = <<>>]
  /\ pc' = [pc EXCEPT ![t] = "execute"]
  /\ UNCHANGED <<dec, ctor, warnings, handlers, records, binder, nest>>

\* wrapper(*args, **kwargs), DecoratorMixin.__call__ and
\* AsyncDecoratorMixin.__call__: the synchronous wrapper enters execute, the
\* async wrapper only creates the coroutine object.
Call(t, fn, args, kwargs) ==
  /\ dec # NoDec
  /\ pc[t] \in {"idle", "done", "discarded"}
  /\ ncalls < MaxCalls
  /\ ncalls' = ncalls + 1
  /\ frame' = [frame EXCEPT ![t] = [NoFrame EXCEPT !.fn = fn, !.args = args,
                                                   !.kwargs = kwargs,
                                                   !.base = Len(records),
                                                   !.driven = ~IsAsync(dec.cls)]]
  /\ trace' = [trace EXCEPT ![t] = <<>>]
  /\ pc' = [pc EXCEPT ![t] = IF IsAsync(dec.cls) THEN "pending" ELSE "execute"]
  /\ UNCHANGED <<dec, ctor, warnings, handlers, records, binder, nest>>

\* the caller awaits the coroutine (or hands it to an event loop)
Drive(t) ==
  /\ pc[t] = "pending"
  /\ pc' = [pc EXCEPT ![t] = "execute"]
  /\ frame' = [frame EXCEPT ![t].driven = TRUE]
  /\ UNCHANGED <<dec, ctor, warnings, handlers, records, trace, ncalls, binder, nest>>

\* the caller drops the coroutine without ever awaiting it
Discard(t) ==
  /\ pc[t] = "pending"
  /\ pc' = [pc EXCEPT ![t] = "discarded"]
  /\ UNCHANGED <<dec, ctor, warnings, handlers, records, frame, trace, ncalls, binder, nest>>

\* Variant: log_on_start calls fn before it logs.
ExecuteCallsFirst(t) ==
  /\ pc[t] = "execute"
  /\ pc' = [pc EXCEPT ![t] = "call_fn"]
  /\ UNCHANGED <<dec, ctor, warnings, handlers, records, frame, trace, ncalls, binder, nest>>

\* the first statement of execute: log_on_start logs, the others call fn
Execute(t) ==
  /\ pc[t] = "execute"
  /\ pc' = [pc EXCEPT ![t] = IF Policy(dec.cls) = "start" THEN "get_logger" ELSE "call_fn"]
  /\ UNCHANGED <<dec, ctor, warnings, handlers, records, frame, trace, ncalls, binder, nest>>

(***************************************************************************)
(* LoggingDecorator.get_logger, one statement at a time.                   *)
(***************************************************************************)
\* if self._logger is None
GetLoggerTest(t) ==
  /\ pc[t] = "get_logger"
  /\ pc' = [pc EXCEPT ![t] = IF dec._logger = None THEN "gl_create" ELSE "gl_return"]
  /\ UNCHANGED <<dec, ctor, warnings, handlers, records, frame, trace, ncalls, binder, nest>>

\* Variant: the handler is never attached.
GetLoggerCreateNoAttach(t) ==
  /\ pc[t] = "gl_create"
  /\ dec' = [dec EXCEPT !._logger = Module(frame[t].fn)]
  /\ pc' = [pc EXCEPT ![t] = "gl_return"]
  /\ UNCHANGED <<ctor, warnings, handlers, records, frame, trace, ncalls, binder, nest>>

\* self._logger = logging.getLogger(fn.__module__); if self._handler is not None
GetLoggerCreate(t) ==
  /\ pc[t] = "gl_create"
  /\ dec' = [dec EXCEPT !._logger = Module(frame[t].fn)]
  /\ pc' = [pc EXCEPT ![t] = IF dec._handler # None THEN "gl_attach" ELSE "gl_return"]
  /\ UNCHANGED <<ctor, warnings, handlers, records, frame, trace, ncalls, binder, nest>>

\* self._logger.addHandler(self._handler)
GetLoggerAttach(t) ==
  /\ pc[t] = "gl_attach"
  /\ handlers' = [handlers EXCEPT ![dec._logger] = @ \cup {dec._handler}]
  /\ pc' = [pc EXCEPT ![t] = "gl_return"]
  /\ UNCHANGED <<dec, ctor, warnings, records, frame, trace, ncalls, binder, nest>>

\* return self._logger
GetLoggerReturn(t) ==
  /\ pc[t] = "gl_return"
  /\ frame' = [frame EXCEPT ![t].logger = dec._logger]
  /\ pc' = [pc EXCEPT ![t] = "build_msg"]
  /\ UNCHANGED <<dec, ctor, warnings, handlers, records, trace, ncalls, binder, nest>>

(***************************************************************************)
(* _do_logging after get_logger: build_msg, then self.log.                 *)
(***************************************************************************)
\* the extra format variables each _do_logging passes to build_msg
Extra(self, fr) ==
  CASE Policy(self.cls) = "start" -> NoExtra
    [] Policy(self.cls) = "end" -> Only(self.result_format_variable, fr.result)
    [] OTHER -> Only(self.exception_format_variable, fr.exc)

\* msg = self.build_msg(...); an exception it raises leaves _do_logging and
\* execute (and on_error, whose except clause is already running)
BuildMsg(t) ==
  /\ pc[t] = "build_msg"
  /\ LET msg == build_msg(dec, frame[t].fn, frame[t].args, frame[t].kwargs,
                          Extra(dec, frame[t]))
     IN  IF msg.ok
           THEN /\ frame' = [frame EXCEPT ![t].msg = msg.val]
                /\ pc' = [pc EXCEPT ![t] = "log"]
           ELSE Finish(t, Raised(msg.exc))
  /\ UNCHANGED <<dec, ctor, warnings, handlers, records, trace, ncalls, binder, nest>>

\* Variant: log_exception does not override log.
EmitNoOverride(self, logger, msg) ==
  [logger |-> logger, level |-> self.log_level, msg |-> msg, via |-> "log",
   handlers |-> handlers[logger]]

\* LoggingDecorator.log: logger.log(log_level, msg);
\* log_exception.log: logger.exception(msg), which logs at ERROR
Emit(self, logger, msg) ==
  IF IsLogException(self.cls)
    THEN [logger |-> logger, level |-> "ERROR", msg |-> msg, via |-> "exception",
          handlers |-> handlers[logger]]
    ELSE [logger |-> logger, level |-> self.log_level, msg |-> msg, via |-> "log",
          handlers |-> handlers[logger]]

\* Variant: on_error raises a new exception of the same class.
AfterLoggingRaisesCopy(self, fr) ==
  CASE Policy(self.cls) = "start" -> [pc |-> "call_fn", out |-> NoOutcome]
    [] Policy(self.cls) = "end" -> [pc |-> "done", out |-> Returned(fr.result)]
    [] OTHER -> [pc |-> "done",
                 out |-> IF self.reraise
                           THEN Raised(ExcV(fr.exc.type, fr.exc.arg, "on_error"))
                           ELSE Returned(NoneV)]

\* Variant: on_error re-raises whatever reraise is.
AfterLoggingAlwaysReraises(self, fr) ==
  CASE Policy(self.cls) = "start" -> [pc |-> "call_fn", out |-> NoOutcome]
    [] Policy(self.cls) = "end" -> [pc |-> "done", out |-> Returned(fr.result)]
    [] OTHER -> [pc |-> "done", out |-> Raised(fr.exc)]

\* what follows _do_logging: log_on_start.execute calls fn, log_on_end.execute
\* returns the result, log_on_error.on_error re-raises or falls through to
\* execute's `return None`
AfterLogging(self, fr) ==
  CASE Policy(self.cls) = "start" -> [pc |-> "call_fn", out |-> NoOutcome]
    [] Policy(self.cls) = "end" -> [pc |-> "done", out |-> Returned(fr.result)]
    [] OTHER -> [pc |-> "done",
                 out |-> IF self.reraise THEN Raised(fr.exc) ELSE Returned(NoneV)]

Log(t) ==
  /\ pc[t] = "log"
  /\ records' = Append(records, Emit(dec, frame[t].logger, frame[t].msg))
  /\ trace' = [trace EXCEPT ![t] = Append(@, "log")]
  /\ LET next == AfterLogging(dec, frame[t])
     IN  /\ pc' = [pc EXCEPT ![t] = next.pc]
         /\ frame' = [frame EXCEPT ![t].out = next.out]
  /\ UNCHANGED <<dec, ctor, warnings, handlers, ncalls, binder, nest>>

(***************************************************************************)
(* super().execute: DecoratorMixin.execute / AsyncDecoratorMixin.execute   *)
(* call fn; what the calling execute does with the outcome.                *)
(***************************************************************************)
\* the except clause around the call: log_on_error.execute catches
\* BaseException, async_log_on_error.execute catches Exception
Catches(self, exc) ==
  IF IsAsync(self.cls) THEN IsSubclass(exc.type, "Exception")
  ELSE IsSubclass(exc.type, "BaseException")

\* Variant: log_on_end logs whether fn returned or raised.
AfterCallEndAlways(self, r) ==
  CASE Policy(self.cls) = "start" -> [pc |-> "done", out |-> r]
    [] Policy(self.cls) = "end" -> [pc |-> "get_logger", out |-> NoOutcome]
    [] OTHER ->
         IF ~r.ok /\ Catches(self, r.exc) THEN [pc |-> "on_error", out |-> NoOutcome]
         ELSE [pc |-> "done", out |-> r]

AfterCall(self, r) ==
  CASE Policy(self.cls) = "start" -> [pc |-> "done", out |-> r]
    [] Policy(self.cls) = "end" ->
         IF r.ok THEN [pc |-> "get_logger", out |-> NoOutcome]
         ELSE [pc |-> "done", out |-> r]
    [] OTHER ->
         IF ~r.ok /\ Catches(self, r.exc) THEN [pc |-> "on_error", out |-> NoOutcome]
         ELSE [pc |-> "done", out |-> r]

CallWrapped(t) ==
  /\ pc[t] = "call_fn"
  /\ LET r == CallFn(frame[t].fn, frame[t].args, frame[t].kwargs)
         next == AfterCall(dec, r)
     IN  /\ pc' = [pc EXCEPT ![t] = next.pc]
         /\ frame' = [frame EXCEPT ![t].out = next.out,
                                   ![t].result = IF r.ok THEN r.val ELSE @,
                                   ![t].exc = IF r.ok THEN @ ELSE r.exc]
  /\ trace' = [trace EXCEPT ![t] = Append(@, "fn")]
  /\ UNCHANGED <<dec, ctor, warnings, handlers, records, ncalls, binder, nest>>

\* log_on_error.on_error: raise exception / except self.on_exceptions
OnErrorMatches(self, exc) == ExceptMatches(exc, ClassesOf(self.on_exceptions))

OnError(t) ==
  /\ pc[t] = "on_error"
  /\ trace' = [trace EXCEPT ![t] = Append(@, "on_error")]
  /\ IF OnErrorMatches(dec, frame[t].exc)
       THEN /\ pc' = [pc EXCEPT ![t] = "get_logger"]
            /\ UNCHANGED frame
       ELSE Finish(t, Raised(frame[t].exc))
  /\ UNCHANGED <<dec, ctor, warnings, handlers, records, ncalls, binder, nest>>

(***************************************************************************)
(* The argument binder on its own: build_extensive_kwargs applied to one   *)
(* callable and one argument list.                                         *)
(***************************************************************************)
\* the longest positional argument list tried
MaxArgs == 3

ArgValues == {IntV(1), StrV("a")}

RECURSIVE SeqsUpTo(_, _)
SeqsUpTo(S, n) ==
  IF n = 0 THEN {<<>>}
  ELSE LET shorter == SeqsUpTo(S, n - 1)
       IN  shorter \cup {Append(q, x) : q \in {r \in shorter : Len(r) = n - 1}, x \in S}

KwargsInputs ==
  { <<>>,
    <<Kw("arg2", IntV(7))>>,
    <<Kw("kwarg1", StrV("k"))>>,
    <<Kw("kwarg2", IntV(8)), Kw("arg2", StrV("b"))>>,
    <<Kw("arg1", IntV(9)), Kw("arg2", IntV(7))>>,
    <<Kw("bogus", IntV(1))>>,
    <<Kw("kwarg1", IntV(5)), Kw("bogus", IntV(1)), Kw("other", StrV("o"))>> }

BinderInit ==
  binder \in [st : {"in"}, fn : {test_func, mocked_func},
              args : SeqsUpTo(ArgValues, MaxArgs), kwargs : KwargsInputs,
              message : Messages]

Bind ==
  /\ binder.st = "in"
  /\ binder' = Extend([st |-> "out",
                       res |-> build_extensive_kwargs(binder.fn, binder.args, binder.kwargs)],
                      binder)
  /\ UNCHANGED mvars

\* build_msg of a log_on_start decorator on the same input
BindMsg ==
  /\ binder.st = "out"
  /\ binder' = Extend([st |-> "msg",
                       msg |-> build_msg(LoggingDecoratorInit("log_on_start", "INFO",
                                                              binder.message, None, None),
                                         binder.fn, binder.args, binder.kwargs, NoExtra)],
                      binder)
  /\ UNCHANGED mvars

(***************************************************************************)
(* The synchronous execute as a whole: the records a call through the      *)
(* decorator self emits and what the caller receives, from the statements  *)
(* of log_on_start.execute, log_on_end.execute and log_on_error.execute    *)
(* (with on_error) in their order.                                         *)
(***************************************************************************)
get_logger(self, fn) == IF self._logger = None THEN Module(fn) ELSE self._logger

do_logging(self, fn, args, kwargs, fr, after) ==
  LET msg == build_msg(self, fn, args, kwargs, Extra(self, fr))
  IN  IF msg.ok
        THEN [emitted |-> <<Emit(self, get_logger(self, fn), msg.val)>>, out |-> after]
        ELSE [emitted |-> <<>>, out |-> Raised(msg.exc)]

execute(self, fn, args, kwargs) ==
  LET r == CallFn(fn, args, kwargs)
      fr == [result |-> IF r.ok THEN r.val ELSE NoneV, exc |-> IF r.ok THEN NoneV ELSE r.exc]
  IN  CASE Policy(self.cls) = "start" -> do_logging(self, fn, args, kwargs, fr, r)
        [] Policy(self.cls) = "end" ->
             IF r.ok THEN do_logging(self, fn, args, kwargs, fr, r)
             ELSE [emitted |-> <<>>, out |-> r]
        [] OTHER ->
             IF ~r.ok /\ Catches(self, r.exc) /\ OnErrorMatches(self, r.exc)
               THEN do_logging(self, fn, args, kwargs, fr, AfterLogging(self, fr).out)
               ELSE [emitted |-> <<>>, out |-> r]

\* the synchronous class an async class derives from
SyncOf(cls) ==
  CASE cls = "async_log_on_start" -> "log_on_start"
    [] cls = "async_log_on_end" -> "log_on_end"
    [] cls = "async_log_on_error" -> "log_on_error"
    [] cls = "async_log_exception" -> "log_exception"
    [] OTHER -> cls

(***************************************************************************)
(* Several decorators nested around one callable:                          *)
(*   @layers[1] ... @layers[n] def fn                                      *)
(* layers[i].__call__ wraps the wrapper of layers[i+1] (functools.wraps    *)
(* hands on __wrapped__ and __module__, so inspect.signature and           *)
(* fn.__module__ see the innermost callable); the execute of layers[i]     *)
(* calls the wrapper below it, the execute of layers[n] calls fn.          *)
(***************************************************************************)
\* the deepest nesting tried
MaxLayers == 2

LayerConfigs ==
  { LoggingDecoratorInit("log_on_start", "INFO", MsgPlain, None, None),
    LoggingDecoratorInit("log_on_start", "INFO", MsgArgs, None, None),
    log_on_end_init("log_on_end", "INFO", MsgPlain, None, None),
    log_on_end_init("log_on_end", "INFO", MsgResult, None, None),
    log_on_error_init("log_on_error", "ERROR", MsgExc, None, None,
                      ClassArg("TestException"), TRUE),
    log_on_error_init("log_on_error", "ERROR", MsgExc, None, None,
                      ClassArg("TestException"), FALSE),
    log_on_error_init("log_on_error", "ERROR", MsgPlain, None, None,
                      TupleArg({"TypeError", "ValueError"}), FALSE),
    log_on_error_init("log_on_error", "ERROR", MsgPlain, None, None, NoneArg, TRUE),
    log_on_error_init("log_on_error", "ERROR", MsgArgs, None, None,
                      ClassArg("BaseException"), FALSE),
    log_exception_init("log_exception", MsgPlain, None, None,
                       ClassArg("BaseException"), FALSE) }

LayerInputs == {q \in SeqsUpTo(LayerConfigs, MaxLayers) : Len(q) >= 1}

NestInputs ==
  { <<test_func, <<IntV(1), IntV(2)>>, <<>> >>,
    <<test_func, <<IntV(2), StrV("asd")>>, <<>> >>,
    <<mocked_func, <<IntV(1), IntV(2)>>, <<>> >>,
    <<interrupted_func, <<>>, <<>> >> }

IsOutcome(o) == "ok" \in DOMAIN o
IsRaised(o) == IsOutcome(o) /\ ~o.ok
IsReturned(o) == IsOutcome(o) /\ o.ok

\* the events of layer i: its records, then what else it did
Ev(kind, i) == [kind |-> kind, layer |-> i]
LogEvents(emitted, i) == [k \in 1..Len(emitted) |-> Ev("log", i)]

\* the call of the outermost wrapper
NestCall(layers, fn, args, kwargs) ==
  /\ nest = NoNest
  /\ nest' = [st |-> "enter", layers |-> layers, i |-> 1,
              fn |-> fn, args |-> args, kwargs |-> kwargs,
              out |-> NoOutcome, events |-> <<>>,
              delegated |-> [k \in 1..Len(layers) |-> 0],
              ret |-> [k \in 1..Len(layers) + 1 |-> NoOutcome],
              src |-> [k \in 1..Len(layers) + 1 |-> 0]]
  /\ UNCHANGED <<dec, ctor, warnings, handlers, records, pc, frame, trace, ncalls, binder>>

\* layer i hands out to its caller, the execute of layer i - 1 or the caller
\* of the outermost wrapper; own says that the exception it raises was
\* created in its own _do_logging, otherwise a raised exception is the
\* instance that came from below (src: the layer an instance was created in)
Deliver(n, out, own, events) ==
  [n EXCEPT !.st = IF n.i = 1 THEN "done" ELSE "up",
            !.out = out, !.ret[n.i] = out, !.i = n.i - 1,
            !.src[n.i] = IF out.ok THEN 0 ELSE IF own THEN n.i ELSE n.src[n.i + 1],
            !.events = @ \o events]

\* execute of layer i up to its call of the layer below: log_on_start logs
\* first (an exception of build_msg leaves execute before the call), the
\* other policies call at once
NestEnter ==
  /\ nest.st = "enter"
  /\ nest.i <= Len(nest.layers)
  /\ LET self == nest.layers[nest.i]
         log == IF Policy(self.cls) = "start"
                  THEN do_logging(self, nest.fn, nest.args, nest.kwargs, NoFrame, NoOutcome)
                  ELSE [emitted |-> <<>>, out |-> NoOutcome]
     IN  /\ records' = records \o log.emitted
         /\ nest' = IF IsOutcome(log.out)
                      THEN Deliver(nest, log.out, TRUE, <<>>)
                      ELSE [nest EXCEPT !.i = @ + 1,
                                        !.delegated[nest.i] = @ + 1,
                                        !.events = @ \o LogEvents(log.emitted, nest.i)
                                                     \o <<Ev("call", nest.i)>>]
  /\ UNCHANGED <<dec, ctor, warnings, handlers, pc, frame, trace, ncalls, binder>>

\* DecoratorMixin.execute of the innermost layer: fn runs
NestFn ==
  /\ nest.st = "enter"
  /\ nest.i = Len(nest.layers) + 1
  /\ LET r == CallFn(nest.fn, nest.args, nest.kwargs)
     IN  nest' = [nest EXCEPT !.st = "up", !.out = r, !.ret[nest.i] = r,
                              !.src[nest.i] = IF r.ok THEN 0 ELSE nest.i,
                              !.i = Len(nest.layers),
                              !.events = Append(@, Ev("fn", nest.i))]
  /\ UNCHANGED <<dec, ctor, warnings, handlers, records, pc, frame, trace, ncalls, binder>>

\* execute of layer i after the layer below returned or raised
NestReturn ==
  /\ nest.st = "up"
  /\ LET self == nest.layers[nest.i]
         r == nest.out
         fr == [result |-> IF r.ok THEN r.val ELSE NoneV,
                exc |-> IF r.ok THEN NoneV ELSE r.exc]
         next == AfterCall(self, r)
         handles == next.pc = "on_error" /\ OnErrorMatches(self, r.exc)
         logs == next.pc = "get_logger" \/ handles
         res == IF logs
                  THEN do_logging(self, nest.fn, nest.args, nest.kwargs, fr,
                                  AfterLogging(self, fr).out)
                  ELSE [emitted |-> <<>>, out |-> r]
     IN  /\ records' = records \o res.emitted
         /\ nest' = Deliver(nest, res.out, logs /\ res.emitted = <<>>,
                            (IF handles THEN <<Ev("handle", nest.i)>> ELSE <<>>)
                              \o LogEvents(res.emitted, nest.i))
  /\ UNCHANGED <<dec, ctor, warnings, handlers, pc, frame, trace, ncalls, binder>>

(***************************************************************************)
(* Specifications.                                                         *)
(***************************************************************************)
MainInit ==
  /\ dec = NoDec
  /\ ctor = NoCtor
  /\ warnings = <<>>
  /\ handlers = [l \in Loggers |-> {}]
  /\ records = <<>>
  /\ pc = [t \in Threads |-> "idle"]
  /\ frame = [t \in Threads |-> NoFrame]
  /\ trace = [t \in Threads |-> <<>>]
  /\ ncalls = 0
  /\ nest = NoNest

Init == MainInit /\ binder = NoBinder

Step(t) ==
  \/ \E c \in CallInputs : Call(t, c[1], c[2], c[3])
  \/ Drive(t)
  \/ Discard(t)
  \/ Execute(t)
  \/ GetLoggerTest(t)
  \/ GetLoggerCreate(t)
  \/ GetLoggerAttach(t)
  \/ GetLoggerReturn(t)
  \/ BuildMsg(t)
  \/ Log(t)
  \/ CallWrapped(t)
  \/ OnError(t)

Next ==
  \/ /\ ctor = NoCtor
     /\ \E cls \in Classes, level \in Levels \cup {None}, message \in Messages,
           logger \in {None, "mocked"}, handler \in {None} \cup Handlers,
           on_exceptions \in OnExceptionsArgs, reraise \in BOOLEAN :
          Construct(cls, level, message, logger, handler, on_exceptions, reraise)
  \/ Step(MainThread)

Spec == Init /\ [][Next]_vars

\* the binder alone
InitBinder == MainInit /\ BinderInit
NextBinder == Bind \/ BindMsg
SpecBinder == InitBinder /\ [][NextBinder]_vars

\* one call through nested decorators
NextNested ==
  \/ \E layers \in LayerInputs, c \in NestInputs : NestCall(layers, c[1], c[2], c[3])
  \/ NestEnter
  \/ NestFn
  \/ NestReturn
SpecNested == Init /\ [][NextNested]_vars

\* two threads calling through one decorator that was given a handler and no
\* logger; the statements of the two calls interleave
NextThreads ==
  \/ /\ ctor = NoCtor
     /\ \E cls \in Classes, level \in {None, "INFO"}, message \in {MsgPlain, MsgArgs},
           handler \in Handlers, on_exceptions \in {NoneArg, ClassArg("BaseException")},
           reraise \in BOOLEAN :
          Construct(cls, level, message, None, handler, on_exceptions, reraise)
  \/ \E t \in Threads : Step(t)
SpecThreads == Init /\ [][NextThreads]_vars

(***************************************************************************)
(* Properties.  They speak of the call the main thread makes: Fr is its    *)
(* frame, Emitted the number of records emitted since it began, FnOutcome  *)
(* what the wrapped callable does on the call's arguments.                 *)
(***************************************************************************)
Fr == frame[MainThread]
Tr == trace[MainThread]
Done == pc[MainThread] = "done"
Emitted == Len(records) - Fr.base
FnOutcome == CallFn(Fr.fn, Fr.args, Fr.kwargs)
LastRecord == records[Len(records)]
\* the message log_on_start builds for the call
StartMsg == build_msg(dec, Fr.fn, Fr.args, Fr.kwargs, NoExtra)
\* the message log_on_end builds with value bound to the result variable
EndMsg(value) ==
  build_msg(dec, Fr.fn, Fr.args, Fr.kwargs, Only(dec.result_format_variable, value))
\* the message log_on_error builds with e bound to the exception variable
ErrorMsg(e) ==
  build_msg(dec, Fr.fn, Fr.args, Fr.kwargs, Only(dec.exception_format_variable, e))
\* the type of the raised exception is in the configured filter
InFilter(e) == \E c \in ClassesOf(dec.on_exceptions) : IsSubclass(e.type, c)
SyncOnError == dec.cls \in {"log_on_error", "log_exception"}

\* C1: in every call through log_on_start the record is emitted strictly
\* before the wrapped callable starts; when building the message fails, the
\* error reaches the caller, no record is emitted and the callable never runs.
C1_StartLogsBeforeCall ==
  dec.cls = "log_on_start" =>
    /\ \A i \in 1..Len(Tr) :
         Tr[i] = "fn" => (i = 2 /\ Tr[1] = "log" /\ Emitted = 1)
    /\ (Done /\ StartMsg.ok) =>
         (Tr = <<"log", "fn">> /\ Emitted = 1 /\ LastRecord.msg = StartMsg.val
          /\ Fr.out = FnOutcome)
    /\ (Done /\ ~StartMsg.ok) =>
         (Fr.out = Raised(StartMsg.exc) /\ Tr = <<>> /\ Emitted = 0)

C1_Witness ==
  /\ dec.cls = "log_on_start"
  /\ Done
  /\ ~StartMsg.ok
  /\ StartMsg.exc.type = "KeyError"
  /\ Fr.out = Raised(StartMsg.exc)

\* C2 as stated: log_on_end emits a record if and only if the wrapped
\* callable returned without raising, the message formatted with the returned
\* value, and the wrapper returns that value; when the callable raises, no
\* record is emitted and the same exception propagates.
C2_Original ==
  (dec.cls = "log_on_end" /\ Done) =>
    /\ (Emitted >= 1) <=> FnOutcome.ok
    /\ FnOutcome.ok =>
         (Tr = <<"fn", "log">> /\ LastRecord.msg = EndMsg(FnOutcome.val).val
          /\ Fr.out = FnOutcome)
    /\ ~FnOutcome.ok => (Emitted = 0 /\ Fr.out = FnOutcome)

\* C2 amended: log_on_end emits a record if and only if the wrapped callable
\* returned without raising and the message could be built; the record is
\* emitted after the callable returned, its message is formatted with the
\* returned value bound to the result variable, and the wrapper returns that
\* value.  When the callable raises, no record is emitted and the same
\* exception propagates.  When the callable returns and building the message
\* fails, no record is emitted and that error propagates in place of the value.
C2_EndLogsOnReturn ==
  (dec.cls = "log_on_end" /\ Done) =>
    /\ (Emitted >= 1) <=> (FnOutcome.ok /\ EndMsg(FnOutcome.val).ok)
    /\ (FnOutcome.ok /\ EndMsg(FnOutcome.val).ok) =>
         (Tr = <<"fn", "log">> /\ Emitted = 1
          /\ LastRecord.msg = EndMsg(FnOutcome.val).val
          /\ Fr.out = FnOutcome)
    /\ ~FnOutcome.ok => (Emitted = 0 /\ Tr = <<"fn">> /\ Fr.out = FnOutcome)
    /\ (FnOutcome.ok /\ ~EndMsg(FnOutcome.val).ok) =>
         (Emitted = 0 /\ Tr = <<"fn">> /\ Fr.out = Raised(EndMsg(FnOutcome.val).exc))

C2_Witness ==
  /\ dec.cls = "log_on_end"
  /\ Done
  /\ FnOutcome.ok
  /\ dec.message = MsgResult
  /\ Emitted = 1
  /\ LastRecord.msg = "test message 1, 2 => 3"

\* C3 as stated: with reraise=True, whenever the wrapped callable raises an
\* exception whose type matches the filter, exactly one record is emitted and
\* the caller receives the original exception instance.
C3_Original ==
  (SyncOnError /\ dec.reraise /\ Done /\ ~FnOutcome.ok /\ InFilter(FnOutcome.exc)) =>
    (Emitted = 1 /\ Fr.out = FnOutcome)

\* C3 amended: with reraise=True, whenever the wrapped callable raises an
\* exception whose type matches the filter and the message can be built,
\* exactly one record is emitted and then the caller receives the original
\* exception instance; when building the message fails, no record is emitted
\* and the caller receives that error instead.
C3_ReraiseSameInstance ==
  (SyncOnError /\ dec.reraise /\ Done /\ ~FnOutcome.ok /\ InFilter(FnOutcome.exc)) =>
    LET m == ErrorMsg(FnOutcome.exc)
    IN  /\ m.ok => (Emitted = 1 /\ Tr = <<"fn", "on_error", "log">>
                    /\ LastRecord.msg = m.val /\ Fr.out = FnOutcome)
        /\ ~m.ok => (Emitted = 0 /\ Fr.out = Raised(m.exc))

C3_Witness ==
  /\ dec.cls = "log_on_error"
  /\ dec.reraise
  /\ Done
  /\ Fr.fn = mocked_func
  /\ Emitted = 1
  /\ LastRecord.msg = "test message TestException('test exception')"
  /\ Fr.out = Raised(ExcV("TestException", StrV("test exception"), "fn"))

\* C4 as stated: with reraise=False, whenever the wrapped callable raises an
\* exception whose type matches the filter, for every message template
\* exactly one record is emitted, no exception escapes and the wrapper
\* returns None.
C4_Original ==
  (SyncOnError /\ ~dec.reraise /\ Done /\ ~FnOutcome.ok /\ InFilter(FnOutcome.exc)) =>
    (Emitted = 1 /\ Fr.out = Returned(NoneV))

\* C4 amended: with reraise=False, whenever the wrapped callable raises an
\* exception whose type matches the filter, for every message template that
\* can be built for the call exactly one record is emitted, no exception
\* escapes and the wrapper returns None; for a template that cannot be built
\* no record is emitted and the error of building it escapes to the caller.
C4_SwallowReturnsNone ==
  (SyncOnError /\ ~dec.reraise /\ Done /\ ~FnOutcome.ok /\ InFilter(FnOutcome.exc)) =>
    LET m == ErrorMsg(FnOutcome.exc)
    IN  /\ m.ok => (Emitted = 1 /\ Tr = <<"fn", "on_error", "log">>
                    /\ LastRecord.msg = m.val /\ Fr.out = Returned(NoneV))
        /\ ~m.ok => (Emitted = 0 /\ Fr.out = Raised(m.exc))

C4_Witness ==
  /\ dec.cls = "log_on_error"
  /\ ~dec.reraise
  /\ Done
  /\ Fr.fn = mocked_func
  /\ dec.message = MsgExc
  /\ Emitted = 1
  /\ Fr.out = Returned(NoneV)

\* C5: through log_on_error, an exception whose type is not in the filter
\* (every exception when on_exceptions was unset, None or the empty tuple)
\* is not logged and propagates as the same instance, whatever reraise is.
C5_UnmatchedPropagates ==
  (SyncOnError /\ Done /\ ~FnOutcome.ok) =>
    /\ ~(\E c \in ClassesOf(dec.on_exceptions) : IsSubclass(FnOutcome.exc.type, c)) =>
         (Emitted = 0 /\ "log" \notin {Tr[i] : i \in 1..Len(Tr)} /\ Fr.out = FnOutcome)
    /\ ctor.on_exceptions \in {NoneArg, TupleArg({})} =>
         (Emitted = 0 /\ Fr.out = FnOutcome)

C5_Witness ==
  /\ dec.cls = "log_on_error"
  /\ ctor.on_exceptions = NoneArg
  /\ ~dec.reraise
  /\ Done
  /\ ~FnOutcome.ok
  /\ Emitted = 0
  /\ Fr.out = FnOutcome

(***************************************************************************)
(* Properties of the argument binder, over SpecBinder.                     *)
(***************************************************************************)
BSig == Signature(binder.fn)
BPositional == OfKind(BSig, "POSITIONAL_OR_KEYWORD")
\* parameter i of the signature was given in the call
Supplied(i) == i <= Len(binder.args) \/ BSig[i].name \in KwNames(binder.kwargs)
\* the template names the variable
Names(message, name) ==
  \E k \in 1..Len(message) : IsField(message[k]) /\ message[k].name = name

C7_Original ==
  (binder.st = "msg" /\ binder.res.ok) =>
    \A i \in BPositional :
      (BSig[i].default = EmptyV /\ ~Supplied(i)) =>
        /\ BSig[i].name \notin DOMAIN binder.res.val
        /\ Names(binder.message, BSig[i].name) => ~binder.msg.ok

C9_HandlerOrLogger ==
  (ctor # NoCtor /\ ctor.raised = None /\ ctor.handler # None) =>
    /\ ctor.logger # None =>
         /\ warnings = <<"mixed use of handler and logger">>
         /\ \A l \in Loggers : ctor.handler \notin handlers[l]
         /\ \A i \in 1..Len(records) :
              records[i].logger = ctor.logger /\ ctor.handler \notin records[i].handlers
    /\ ctor.logger = None =>
         /\ warnings = <<>>
         /\ \A l \in Loggers : ctor.handler \in handlers[l] => l = dec._logger
         /\ (ncalls = 1 /\ dec._logger # None) => dec._logger = Module(Fr.fn)
         /\ \A i \in 1..Len(records) :
              /\ records[i].logger = dec._logger
              /\ ctor.handler \in records[i].handlers
              /\ ctor.handler \in handlers[dec._logger]

C9_Witness ==
  /\ ctor # NoCtor
  /\ ctor.logger = None
  /\ ctor.handler = "log_handler"
  /\ ncalls = 2
  /\ Len(records) = 2
  /\ Module(Fr.fn) # dec._logger
  /\ records[2].logger = dec._logger
  /\ records[2].handlers = {"log_handler"}

\* C10: calling the wrapper of an async_* decorator only creates a pending
\* computation: until the caller drives it no record has been emitted, the
\* wrapped callable has not started and no error handling has run; a
\* computation that is dropped without being driven stays that way.
C10_AsyncRunsWhenDriven ==
  (IsAsync(dec.cls) /\ pc[MainThread] # "idle" /\ ~Fr.driven) =>
    /\ pc[MainThread] \in {"pending", "discarded"}
    /\ Tr = <<>>
    /\ Emitted = 0
    /\ Fr.out = NoOutcome
    /\ Fr.logger = None

C10_Witness ==
  /\ IsAsync(dec.cls)
  /\ pc[MainThread] = "discarded"
  /\ ncalls = 2
  /\ Len(records) = 1
  /\ Emitted = 0

\* what the call of the main thread emitted and delivered
Observed ==
  [emitted |-> SubSeq(records, Fr.base + 1, Len(records)), out |-> Fr.out]

\* C11: a call driven to completion through any decorator, async or not,
\* emits the same records and delivers the same result or exception as the
\* synchronous decorator of its policy does on the same callable and
\* arguments, whatever the callable returns or raises.
C11_Original ==
  Done => Observed = execute([dec EXCEPT !.cls = SyncOf(dec.cls)], Fr.fn, Fr.args, Fr.kwargs)

\* the same, of the calls through the synchronous classes alone
SyncRunsExecute ==
  (Done /\ ~IsAsync(dec.cls)) => Observed = execute(dec, Fr.fn, Fr.args, Fr.kwargs)

(***************************************************************************)
(* Nested decorators.                                                      *)
(***************************************************************************)
NestDone == nest.st = "done"
NLayers == Len(nest.layers)
Layer(i) == nest.layers[i]
NEvents == DOMAIN nest.events
IsStartLog(a) ==
  nest.events[a].kind = "log" /\ Policy(Layer(nest.events[a].layer).cls) = "start"
\* layer i was called: it is the outermost, or the layer above it called it
Entered(i) == i = 1 \/ nest.delegated[i - 1] >= 1
\* layer i is a log_on_start whose message cannot be built for this call
StartFails(i) ==
  /\ Policy(Layer(i).cls) = "start"
  /\ ~build_msg(Layer(i), nest.fn, nest.args, nest.kwargs, NoExtra).ok

\* the outermost log_on_start emits before any start record of a layer
\* below it and before the wrapped callable runs
StartOutermostFirst ==
  \A a, b \in NEvents :
    (/\ IsStartLog(a)
     /\ \/ nest.events[b].kind = "fn"
        \/ IsStartLog(b) /\ nest.events[a].layer < nest.events[b].layer)
    => a < b

\* the error handlers that match handle from the innermost outwards
InnermostHandlesFirst ==
  \A a, b \in NEvents :
    (/\ nest.events[a].kind = "handle"
     /\ nest.events[b].kind = "handle"
     /\ nest.events[a].layer > nest.events[b].layer)
    => a < b

\* the caller of a log_on_error layer gets the exception that the layer below
\* it raised only if the layer re-raises or its filter does not match
OuterSeesOnlyUnhandled ==
  \A i \in 1..NLayers :
    (/\ Policy(Layer(i).cls) = "error"
     /\ IsRaised(nest.ret[i + 1])
     /\ IsRaised(nest.ret[i])
     /\ nest.src[i] = nest.src[i + 1])
    => (Layer(i).reraise \/ ~OnErrorMatches(Layer(i), nest.ret[i + 1].exc))

\* a matching filter without reraise hides the exception: the layer returns
\* None or raises the error of building its own message
SwallowHides ==
  \A i \in 1..NLayers :
    (/\ Policy(Layer(i).cls) = "error"
     /\ IsRaised(nest.ret[i + 1])
     /\ OnErrorMatches(Layer(i), nest.ret[i + 1].exc)
     /\ ~Layer(i).reraise)
    => \/ nest.ret[i] = Returned(NoneV)
       \/ IsRaised(nest.ret[i]) /\ nest.src[i] = i

\* a log_on_end layer emits only if the layer below it returned
EndOnlyOnReturn ==
  \A a \in NEvents :
    (nest.events[a].kind = "log" /\ Policy(Layer(nest.events[a].layer).cls) = "end")
    => IsReturned(nest.ret[nest.events[a].layer + 1])

CompositionOrder ==
  /\ StartOutermostFirst
  /\ InnermostHandlesFirst
  /\ OuterSeesOnlyUnhandled
  /\ EndOnlyOnReturn

\* C12 as stated: in a finished call through nested decorators every layer
\* has called the layer below it exactly once, and the events follow the
\* composition order.
C12_Original ==
  (NestDone /\ NLayers >= 2) =>
    /\ \A i \in 1..NLayers : nest.delegated[i] = 1
    /\ CompositionOrder

\* C12: in a finished call through nested decorators no layer has called the
\* layer below it more than once, and a layer has called it exactly once
\* unless the layer was never called itself or is a log_on_start whose
\* message could not be built (which raises before the call); the outermost
\* log_on_start emits before the start records of the layers below and
\* before the callable runs, matching error handlers handle from the
\* innermost outwards, the caller of a log_on_error layer gets the exception
\* raised below only if that layer re-raised or did not match, and a
\* log_on_end layer emits only if the layer below it returned.
C12_NestedOrder ==
  NestDone =>
    /\ \A i \in 1..NLayers :
         nest.delegated[i] = IF Entered(i) /\ ~StartFails(i) THEN 1 ELSE 0
    /\ (\E a \in NEvents : nest.events[a].kind = "fn")
         <=> \A i \in 1..NLayers : ~StartFails(i)
    /\ CompositionOrder
    /\ SwallowHides

\* a finished call through log_on_start around a log_on_error that swallowed
\* the exception of the callable, and one whose inner log_on_start failed
C12_Witness ==
  /\ NestDone
  /\ NLayers = 2
  /\ Policy(Layer(1).cls) = "start"
  /\ Policy(Layer(2).cls) = "error"
  /\ nest.events = <<Ev("log", 1), Ev("call", 1), Ev("call", 2), Ev("fn", 3),
                     Ev("handle", 2), Ev("log", 2)>>
  /\ nest.out = Returned(NoneV)
  /\ Len(records) = 2

(***************************************************************************)
(* Two threads, one decorator.                                             *)
(***************************************************************************)
\* C13: with a handler and no logger configured, every record either thread
\* emits is handled by the configured handler, whatever the interleaving of
\* the two get_logger calls, and when both calls are over both threads have
\* used the same logger, which has the handler attached.
C13_Original ==
  (dec # NoDec /\ dec._handler # None) =>
    /\ \A k \in DOMAIN records : dec._handler \in records[k].handlers
    /\ (\A t \in Threads : pc[t] = "done" /\ frame[t].logger # None) =>
         /\ \A t, u \in Threads : frame[t].logger = frame[u].logger
         /\ dec._handler \in handlers[dec._logger]

====
